---------------------------- MODULE Spec2Model ----------------------------
(* A model of jiff's error type (src/src/error.rs) and of the jiff-aws     *)
(* DateTime conversions (src/crates/jiff-aws/src/lib.rs).                  *)
(*                                                                         *)
(* An Error is a handle (an Arc) to an ErrorInner record {kind, cause}.    *)
(* The records live in `heap`, each with its strong reference count; the   *)
(* handles the program owns live in `slots`, either bare (Error) or inside *)
(* a Result (Ok(v) / Err(e)).                                              *)
EXTENDS Integers, Sequences, FiniteSets, TLC

VARIABLES
    std,        \* the `std` feature of the build
    heap,       \* record id -> ErrorInner cell (with Arc's strong count)
    slots,      \* the values the program owns
    attached,   \* history: record id -> texts attached so far, leaf first
    panicked,   \* "none", or the message of the panic that ended the run
    last,       \* history: the last operation, its inputs and its outcome,
                \* and the number of operations so far
    fmt,        \* the last to_string(): the record rendered and its text
    aws         \* conversion run: the DateTime, the Timestamp, the way back

vars == <<std, heap, slots, attached, panicked, last, fmt, aws>>

---------------------------------------------------------------------------
(* Bounds *)

MaxRec == 3
MaxSlots == 3
MaxOps == 5
RecIds == 1..MaxRec
SlotIds == 1..MaxSlots
None == 0

---------------------------------------------------------------------------
(* Text: strings, as Display writes them *)

Sep == ": "

Digit(d) == SubSeq("0123456789", d + 1, d + 1)

RECURSIVE FmtNat(_)
FmtNat(n) == IF n < 10 THEN Digit(n) ELSE FmtNat(n \div 10) \o Digit(n % 10)

\* `{given}` / `{min}` / `{max}`: Display of u128 / i128
FmtInt(n) == IF n < 0 THEN "-" \o FmtNat(0 - n) ELSE FmtNat(n)

Contains(s, sub) ==
    \E i \in 1..(Len(s) - Len(sub) + 1) : SubSeq(s, i, i + Len(sub) - 1) = sub

---------------------------------------------------------------------------
(* ErrorKind and its payloads *)

MkKind(variant, shape, what, given, min, max) ==
    [variant |-> variant, shape |-> shape, what |-> what,
     given |-> given, min |-> min, max |-> max]

NoKind == MkKind("-", "", "", 0, 0, 0)

AdhocError(msg) == MkKind("Adhoc", "", msg, 0, 0, 0)

RangeError_unsigned(what, given, min, max) ==
    MkKind("Range", "Positive", what, given, min, max)

RangeError_signed(what, given, min, max) ==
    MkKind("Range", "Negative", what, given, min, max)

RangeError_specific(what, given) ==
    MkKind("Range", "Specific", what, given, 0, 0)

TimeZoneLookupError(name) == MkKind("TimeZoneLookup", "", name, 0, 0, 0)

IOError(err) == MkKind("IO", "", err, 0, 0, 0)

FilePathError(path) == MkKind("FilePath", "", path, 0, 0, 0)

\* a rendering with the bounds the wrong way round
RangeErrorFmtSwapped(k) ==
    IF k.shape = "Specific"
    THEN "parameter '" \o k.what \o "' with value " \o FmtInt(k.given)
         \o " is illegal"
    ELSE "parameter '" \o k.what \o "' with value " \o FmtInt(k.given)
         \o " is not in the required range of "
         \o FmtInt(k.max) \o "..=" \o FmtInt(k.min)

RangeError_fmt(k) ==
    CASE k.shape = "Positive" ->
            "parameter '" \o k.what \o "' with value " \o FmtInt(k.given)
            \o " is not in the required range of "
            \o FmtInt(k.min) \o "..=" \o FmtInt(k.max)
      [] k.shape = "Negative" ->
            "parameter '" \o k.what \o "' with value " \o FmtInt(k.given)
            \o " is not in the required range of "
            \o FmtInt(k.min) \o "..=" \o FmtInt(k.max)
      [] k.shape = "Specific" ->
            "parameter '" \o k.what \o "' with value " \o FmtInt(k.given)
            \o " is illegal"

TimeZoneLookupError_fmt(k) ==
    "failed to find timezone '" \o k.what \o "' in time zone database"

BugMarker == "<BUG: SHOULD NOT EXIST>"

IOError_fmt(k, withStd) == IF withStd THEN k.what ELSE BugMarker

FilePathError_fmt(k, withStd) == IF withStd THEN k.what ELSE BugMarker

AdhocError_fmt(k) == k.what

ErrorKind_fmt(k, withStd) ==
    CASE k.variant = "Adhoc" -> AdhocError_fmt(k)
      [] k.variant = "Range" -> RangeError_fmt(k)
      [] k.variant = "TimeZoneLookup" -> TimeZoneLookupError_fmt(k)
      [] k.variant = "FilePath" -> FilePathError_fmt(k, withStd)
      [] k.variant = "IO" -> IOError_fmt(k, withStd)

---------------------------------------------------------------------------
(* The heap of ErrorInner records *)

\* `shared` is history: the record has been cloned since it was allocated
FreeCell ==
    [live |-> FALSE, kind |-> NoKind, cause |-> None, strong |-> 0,
     shared |-> FALSE]

\* Arc::new(ErrorInner { kind, cause: None })
ErrorInner(kind) ==
    [live |-> TRUE, kind |-> kind, cause |-> None, strong |-> 1,
     shared |-> FALSE]

HasFree(h) == \E i \in RecIds : ~h[i].live

\* the allocator: the lowest free cell
NewId(h) == CHOOSE i \in RecIds : ~h[i].live /\ \A j \in RecIds : j < i => h[j].live

\* impl From<ErrorKind> for Error
Error_from(h, kind) == [h EXCEPT ![NewId(h)] = ErrorInner(kind)]

\* #[derive(Clone)] on Error: Arc::clone
ArcClone(h, id) == [h EXCEPT ![id].strong = @ + 1, ![id].shared = TRUE]

\* dropping an Error handle: Arc's drop, then ErrorInner's drop of its cause
RECURSIVE ArcDrop(_, _)
ArcDrop(h, id) ==
    IF h[id].strong > 1
    THEN [h EXCEPT ![id].strong = @ - 1]
    ELSE LET c == h[id].cause
             h2 == [h EXCEPT ![id] = FreeCell]
         IN IF c = None THEN h2 ELSE ArcDrop(h2, c)

Diverges == "<does not terminate>"

\* a Display that writes the separator before it looks for a cause
RECURSIVE DisplayLoopTrailingSep(_, _, _, _, _)
DisplayLoopTrailingSep(h, id, acc, withStd, fuel) ==
    IF fuel = 0 THEN Diverges
    ELSE LET out == acc \o ErrorKind_fmt(h[id].kind, withStd) \o Sep
         IN IF h[id].cause = None THEN out
            ELSE DisplayLoopTrailingSep(h, h[id].cause, out, withStd, fuel - 1)

\* impl Display for Error: the loop over the causes
RECURSIVE DisplayLoop(_, _, _, _, _)
DisplayLoop(h, id, acc, withStd, fuel) ==
    IF fuel = 0 THEN Diverges
    ELSE LET out == acc \o ErrorKind_fmt(h[id].kind, withStd)
         IN IF h[id].cause = None THEN out
            ELSE DisplayLoop(h, h[id].cause, out \o Sep, withStd, fuel - 1)

Display(h, id, withStd) == DisplayLoop(h, id, "", withStd, MaxRec + 1)


---------------------------------------------------------------------------
(* The values the program owns *)

EmptySlot == [tag |-> "Empty", id |-> None, val |-> 0]
ErrorVal(id) == [tag |-> "Error", id |-> id, val |-> 0]
\* Result<T, Error>
Ok(v) == [tag |-> "Ok", id |-> None, val |-> v]
Err(id) == [tag |-> "Err", id |-> id, val |-> 0]

HasFreeSlot(sl) == \E s \in SlotIds : sl[s].tag = "Empty"

NewSlot(sl) ==
    CHOOSE s \in SlotIds :
        sl[s].tag = "Empty" /\ \A t \in SlotIds : t < s => sl[t].tag # "Empty"

\* the inputs the operations are called with
Texts == {"bad input", "parsing duration"}
Values == {7}

\* a consequent: a static text literal, an owned string, or an Error handle
Consequents ==
    [form : {"str", "String"}, text : Texts, slot : {None}]
    \cup [form : {"Error"}, text : {""}, slot : SlotIds]

\* the panic messages (written without the backquotes around None and unwrap)
CauseMsg == "cause of consequence must be None"
UnwrapMsg == "called Option::unwrap() on a None value"

NoCons ==
    [id |-> None, kind |-> NoKind, cause |-> None, strong |-> 0, text |-> "",
     live |-> 0]

NoOp ==
    [n |-> 0, op |-> "init", form |-> "-", text |-> "", selfTag |-> "-",
     selfId |-> None, selfVal |-> 0, selfText |-> "", arg |-> NoCons,
     cons |-> NoCons, calls |-> 0, outcome |-> "-", res |-> 0]

Live(h) == {i \in RecIds : h[i].live}

\* no panic has ended the run, and the run may go on
Running == panicked = "none" /\ last.n < MaxOps

\* the history of a record that is freed is forgotten
Forget(att, h) == [i \in RecIds |-> IF h[i].live THEN att[i] ELSE << >>]

---------------------------------------------------------------------------
(* Leaf constructors *)

\* Error::adhoc
Error_adhoc(h, err) == Error_from(h, AdhocError(err))

Construct(kind, op) ==
    /\ Running
    /\ HasFree(heap)
    /\ HasFreeSlot(slots)
    /\ LET id == NewId(heap)
           s == NewSlot(slots)
       IN /\ heap' = Error_from(heap, kind)
          /\ slots' = [slots EXCEPT ![s] = ErrorVal(id)]
          /\ attached' = [attached EXCEPT ![id] = <<ErrorKind_fmt(kind, std)>>]
          /\ last' = [NoOp EXCEPT !.n = last.n + 1, !.op = op, !.outcome = "returned", !.res = s]
    /\ UNCHANGED <<std, panicked, fmt, aws>>

Adhoc(err) == Construct(AdhocError(err), "adhoc")

Unsigned(what, given, min, max) ==
    Construct(RangeError_unsigned(what, given, min, max), "unsigned")

Signed(what, given, min, max) ==
    Construct(RangeError_signed(what, given, min, max), "signed")

Specific(what, given) == Construct(RangeError_specific(what, given), "specific")

TimeZoneLookup(name) == Construct(TimeZoneLookupError(name), "time_zone_lookup")

\* #[cfg(feature = "std")]
Io(err) == std /\ Construct(IOError(err), "io")

LeafOps == {"adhoc", "unsigned", "signed", "specific", "time_zone_lookup", "io"}

---------------------------------------------------------------------------
(* Clone and drop *)

Clone(s) ==
    /\ Running
    /\ slots[s].tag = "Error"
    /\ HasFreeSlot(slots)
    /\ LET id == slots[s].id
           t == NewSlot(slots)
       IN /\ heap' = ArcClone(heap, id)
          /\ slots' = [slots EXCEPT ![t] = ErrorVal(id)]
          /\ last' = [NoOp EXCEPT !.n = last.n + 1, !.op = "clone"]
    /\ UNCHANGED <<std, attached, panicked, fmt, aws>>

Drop(s) ==
    /\ Running
    /\ slots[s].tag # "Empty"
    /\ LET v == slots[s]
           h2 == IF v.tag = "Ok" THEN heap ELSE ArcDrop(heap, v.id)
       IN /\ heap' = h2
          /\ attached' = Forget(attached, h2)
          /\ slots' = [slots EXCEPT ![s] = EmptySlot]
          /\ last' = [NoOp EXCEPT !.n = last.n + 1, !.op = "drop"]
    /\ UNCHANGED <<std, panicked, fmt, aws>>

---------------------------------------------------------------------------
(* IntoError: the consequent as an Error, [heap, id] *)

\* a conversion that copies the error's kind into a new record
IntoErrorCopies(h, id) ==
    IF HasFree(h)
    THEN [heap |-> ArcDrop(Error_from(h, h[id].kind), id), id |-> NewId(h)]
    ELSE [heap |-> h, id |-> id]

IntoError_Error(h, id) == [heap |-> h, id |-> id]

IntoError_str(h, text) == [heap |-> Error_adhoc(h, text), id |-> NewId(h)]

IntoError_String(h, text) == [heap |-> Error_adhoc(h, text), id |-> NewId(h)]

into_error(h, sl, q) ==
    CASE q.form = "Error" -> IntoError_Error(h, sl[q.slot].id)
      [] q.form = "str" -> IntoError_str(h, q.text)
      [] q.form = "String" -> IntoError_String(h, q.text)

---------------------------------------------------------------------------
(* ErrorContext for Error *)

\* a context without the assertion
CauseUnchecked(h, id) == TRUE

\* assert!(err.inner.cause.is_none(), ..)
CauseIsNone(h, id) == h[id].cause = None

\* a context that writes through the Arc whatever its reference count
UniqueUnchecked(h, id) == TRUE

\* Arc::get_mut(&mut err.inner) is Some: no other handle to the record
IsUnique(h, id) == h[id].strong = 1

\* a context that links the wrong way round: self.cause = Some(err)
SetCauseReversed(h, id, selfId) ==
    LET old == h[selfId].cause
        h2 == [h EXCEPT ![selfId].cause = id]
    IN IF old = None THEN h2 ELSE ArcDrop(h2, old)

\* .cause = Some(self): self moves into the field, the old value is dropped
SetCause(h, id, selfId) ==
    LET old == h[id].cause
        h2 == [h EXCEPT ![id].cause = selfId]
    IN IF old = None THEN h2 ELSE ArcDrop(h2, old)

\* a panic unwinds: the locals err and self are dropped
Unwind(h, id, selfId) == ArcDrop(ArcDrop(h, id), selfId)

\* the body of context and of with_context, from the converted consequent
\* err = [heap, id] on; `err` in the result is history (what was converted)
Attach(err, selfId, calls) ==
    LET h == err.heap
        id == err.id
    IN IF ~CauseIsNone(h, id)
       THEN [heap |-> Unwind(h, id, selfId), outcome |-> "panic",
             msg |-> CauseMsg, id |-> None, err |-> err, calls |-> calls]
       ELSE IF ~IsUnique(h, id)
       THEN [heap |-> Unwind(h, id, selfId), outcome |-> "panic",
             msg |-> UnwrapMsg, id |-> None, err |-> err, calls |-> calls]
       ELSE [heap |-> SetCause(h, id, selfId), outcome |-> "returned",
             msg |-> "none", id |-> id, err |-> err, calls |-> calls]

\* fn context(self, consequent: impl IntoError) -> Error
Error_context(h, sl, selfId, q) == Attach(into_error(h, sl, q), selfId, 0)

\* fn with_context(self, consequent: impl FnOnce() -> E) -> Error:
\* the producer is called, once, and its value converted
Error_with_context(h, sl, selfId, q) == Attach(into_error(h, sl, q), selfId, 1)

\* fn path(self, path) -> Error
Error_path(h, selfId, path) ==
    Attach(IntoError_Error(Error_from(h, FilePathError(path)), NewId(h)),
           selfId, 0)

---------------------------------------------------------------------------
(* ErrorContext for Result<T, Error> *)

\* a consequent (or the closure holding it) that is dropped unused
DropUnused(h, sl, q) ==
    IF q.form = "Error" THEN ArcDrop(h, sl[q.slot].id) ELSE h

Passed(h, sl, q) ==
    [heap |-> DropUnused(h, sl, q), outcome |-> "returned", msg |-> "none",
     id |-> None, err |-> [heap |-> h, id |-> None], calls |-> 0]

\* self.map_err(|err| err.context(consequent))
Result_context(h, sl, v, q) ==
    IF v.tag = "Ok" THEN Passed(h, sl, q) ELSE Error_context(h, sl, v.id, q)

\* a with_context that calls its producer before looking at the Result
ResultWithContextEager(h, sl, v, q) ==
    IF v.tag = "Ok" THEN [Passed(h, sl, q) EXCEPT !.calls = 1]
    ELSE Error_with_context(h, sl, v.id, q)

\* self.map_err(|err| err.with_context(consequent))
Result_with_context(h, sl, v, q) ==
    IF v.tag = "Ok" THEN Passed(h, sl, q)
    ELSE Error_with_context(h, sl, v.id, q)

---------------------------------------------------------------------------
(* The calls *)

CanCall(s, q, tags) ==
    /\ Running
    /\ slots[s].tag \in tags
    /\ IF q.form = "Error"
       THEN q.slot # s /\ slots[q.slot].tag = "Error"
       ELSE slots[s].tag = "Ok" \/ HasFree(heap)

\* history: a record as a call sees it
Seen(h, id, withStd) ==
    IF id = None THEN NoCons
    ELSE [id |-> id, kind |-> h[id].kind, cause |-> h[id].cause,
          strong |-> h[id].strong, text |-> Display(h, id, withStd),
          live |-> Cardinality(Live(h))]

\* the state after a call on slot s with consequent q that ended as r
Called(op, s, q, r) ==
    LET v == slots[s]
        used == IF q.form = "Error" THEN [slots EXCEPT ![q.slot] = EmptySlot]
                ELSE slots
        out == CASE r.outcome = "panic" -> EmptySlot
                 [] v.tag = "Ok" -> v
                 [] v.tag = "Err" -> Err(r.id)
                 [] v.tag = "Error" -> ErrorVal(r.id)
        cons == Seen(r.err.heap, r.err.id, std)
        att == IF r.outcome = "returned" /\ r.id # None
               THEN [attached EXCEPT
                       ![r.id] = Append(attached[v.id],
                                        ErrorKind_fmt(cons.kind, std))]
               ELSE attached
    IN /\ heap' = r.heap
       /\ slots' = [used EXCEPT ![s] = out]
       /\ attached' = Forget(att, r.heap)
       /\ panicked' = r.msg
       /\ last' = [n |-> last.n + 1, op |-> op, form |-> q.form, text |-> q.text,
                   selfTag |-> v.tag, selfId |-> v.id, selfVal |-> v.val,
                   selfText |-> IF v.tag = "Ok" THEN ""
                                ELSE Display(heap, v.id, std),
                   arg |-> IF q.form = "Error"
                           THEN Seen(heap, slots[q.slot].id, std)
                           ELSE [NoCons EXCEPT !.live = Cardinality(Live(heap))],
                   cons |-> cons, calls |-> r.calls, outcome |-> r.outcome,
                   res |-> s]
       /\ UNCHANGED <<std, fmt, aws>>

Context(s, q) ==
    /\ CanCall(s, q, {"Error"})
    /\ Called("context", s, q, Error_context(heap, slots, slots[s].id, q))

WithContext(s, q) ==
    /\ CanCall(s, q, {"Error"})
    /\ Called("with_context", s, q,
              Error_with_context(heap, slots, slots[s].id, q))

PathQ == [form |-> "path", text |-> "", slot |-> None]

Path(s, path) ==
    /\ std
    /\ CanCall(s, PathQ, {"Error"})
    /\ Called("path", s, PathQ, Error_path(heap, slots[s].id, path))

ResultContext(s, q) ==
    /\ CanCall(s, q, {"Ok", "Err"})
    /\ Called("result_context", s, q, Result_context(heap, slots, slots[s], q))

ResultWithContext(s, q) ==
    /\ CanCall(s, q, {"Ok", "Err"})
    /\ Called("result_with_context", s, q,
              Result_with_context(heap, slots, slots[s], q))

\* Ok(v)
MakeOk(v) ==
    /\ Running
    /\ HasFreeSlot(slots)
    /\ slots' = [slots EXCEPT ![NewSlot(slots)] = Ok(v)]
    /\ last' = [NoOp EXCEPT !.n = last.n + 1, !.op = "ok"]
    /\ UNCHANGED <<std, heap, attached, panicked, fmt, aws>>

\* Err(e)
MakeErr(s) ==
    /\ Running
    /\ slots[s].tag = "Error"
    /\ slots' = [slots EXCEPT ![s] = Err(slots[s].id)]
    /\ last' = [NoOp EXCEPT !.n = last.n + 1, !.op = "err"]
    /\ UNCHANGED <<std, heap, attached, panicked, fmt, aws>>

---------------------------------------------------------------------------
(* Rendering: err.to_string() *)

NoFmt == [done |-> FALSE, kind |-> NoKind, cause |-> None, text |-> ""]

Render(s) ==
    /\ Running
    /\ slots[s].tag = "Error"
    /\ LET id == slots[s].id
       IN fmt' = [done |-> TRUE, kind |-> heap[id].kind,
                  cause |-> heap[id].cause, text |-> Display(heap, id, std)]
    /\ UNCHANGED <<std, heap, slots, attached, panicked, last, aws>>

---------------------------------------------------------------------------
(* The specification of the error type: handles, clones, attachments *)

NoDateTime == [secs |-> [hi |-> 0, lo |-> 0], nanos |-> [hi |-> 0, lo |-> 0]]

NoAws == [pc |-> "-", d |-> NoDateTime, res |-> [tag |-> "-"],
          back |-> [tag |-> "-"]]

\* either build
InitAny ==
    /\ std \in BOOLEAN
    /\ heap = [i \in RecIds |-> FreeCell]
    /\ slots = [s \in SlotIds |-> EmptySlot]
    /\ attached = [i \in RecIds |-> << >>]
    /\ panicked = "none"
    /\ last = NoOp
    /\ fmt = NoFmt
    /\ aws = NoAws

\* the full build: the reduced build has the same calls less Io and Path
Init == InitAny /\ std

Next ==
    \/ \E t \in Texts : Adhoc(t)
    \/ Io("permission denied")
    \/ \E s \in SlotIds : Clone(s)
    \/ \E s \in SlotIds : Drop(s)
    \/ \E s \in SlotIds, q \in Consequents : Context(s, q)
    \/ \E s \in SlotIds, q \in Consequents : WithContext(s, q)
    \/ \E s \in SlotIds : Path(s, "/usr/share/zoneinfo")

Spec == Init /\ [][Next]_vars

---------------------------------------------------------------------------
(* The specification of the Result-shaped calls *)

NextResult ==
    \/ \E t \in Texts : Adhoc(t)
    \/ \E v \in Values : MakeOk(v)
    \/ \E s \in SlotIds : MakeErr(s)
    \/ \E s \in SlotIds : Clone(s)
    \/ \E s \in SlotIds : Drop(s)
    \/ \E s \in SlotIds, q \in Consequents : ResultContext(s, q)
    \/ \E s \in SlotIds, q \in Consequents : ResultWithContext(s, q)

SpecResult == Init /\ [][NextResult]_vars

---------------------------------------------------------------------------
(* The specification of the leaf constructors and their rendering: one    *)
(* leaf at a time, over a wider set of inputs                             *)

Fields == {"day", "offset"}
UGivens == {0, 9, 40, 366}
SGivens == {-12345, -5, 0, 40}
Mins == {-3, 1}
Maxs == {3, 31}
Names == {"Fake/Zone", "Etc/Made: Up"}
Messages == {"bad input", "a: b"}
OsErrors == {"permission denied"}

NoLeaf == Live(heap) = {}

NextLeaf ==
    \/ NoLeaf /\ \E t \in Messages : Adhoc(t)
    \/ NoLeaf /\ \E w \in Fields, g \in UGivens, mn \in Mins, mx \in Maxs :
                    Unsigned(w, g, mn, mx)
    \/ NoLeaf /\ \E w \in Fields, g \in SGivens, mn \in Mins, mx \in Maxs :
                    Signed(w, g, mn, mx)
    \/ NoLeaf /\ \E w \in Fields, g \in SGivens : Specific(w, g)
    \/ NoLeaf /\ \E n \in Names : TimeZoneLookup(n)
    \/ NoLeaf /\ \E e \in OsErrors : Io(e)
    \/ \E s \in SlotIds : Render(s)
    \/ \E s \in SlotIds : Drop(s)

SpecLeaf == InitAny /\ [][NextLeaf]_vars

---------------------------------------------------------------------------
(* Integers wider than the checker's: hi * Limb + lo, 0 <= lo < Limb *)

Limb == 1000 * 1000

Wide(hi, lo) == [hi |-> hi + (lo \div Limb), lo |-> lo % Limb]

WInt(n) == Wide(0, n)

WAdd(a, b) == Wide(a.hi + b.hi, a.lo + b.lo)

WLt(a, b) == a.hi < b.hi \/ (a.hi = b.hi /\ a.lo < b.lo)

WLe(a, b) == a = b \/ WLt(a, b)

\* the value of a wide integer known to fit
WToInt(a) == a.hi * Limb + a.lo

TwoPow31 == Wide(2147, 483648)
TwoPow32 == Wide(4294, 967296)

\* `x as u32` of an i32: x mod 2^32
AsU32(x) == IF x >= 0 THEN WInt(x) ELSE WAdd(TwoPow32, WInt(x))

\* `x as i32` of a u32: two's complement
AsI32(u) ==
    IF WLt(u, TwoPow31) THEN WToInt(u)
    ELSE WToInt(WAdd(u, Wide(0 - TwoPow32.hi, 0 - TwoPow32.lo)))

---------------------------------------------------------------------------
(* jiff::Timestamp and aws_smithy_types::DateTime, as jiff-aws uses them *)

NanosPerSecond == 1000 * 1000 * 1000

\* Timestamp::MIN and Timestamp::MAX, in seconds
UnixSecondsMin == Wide(-377705, -23201)
UnixSecondsMax == Wide(253402, 207200)

WZero == WInt(0)

\* Timestamp::new(second: i64, nanosecond: i32): both in range, then the
\* two are given the same sign
Timestamp_new(second, nanosecond) ==
    IF WLt(second, UnixSecondsMin) \/ WLt(UnixSecondsMax, second)
    THEN [tag |-> "Err", what |-> "second"]
    ELSE IF nanosecond <= 0 - NanosPerSecond \/ nanosecond >= NanosPerSecond
    THEN [tag |-> "Err", what |-> "nanosecond"]
    ELSE IF second = UnixSecondsMin /\ nanosecond < 0
    THEN [tag |-> "Err", what |-> "seconds and nanoseconds"]
    ELSE IF WLt(second, WZero) /\ nanosecond > 0
    THEN [tag |-> "Ok", second |-> WAdd(second, WInt(1)),
          nanosecond |-> nanosecond - NanosPerSecond]
    ELSE IF WLt(WZero, second) /\ nanosecond < 0
    THEN [tag |-> "Ok", second |-> WAdd(second, WInt(-1)),
          nanosecond |-> nanosecond + NanosPerSecond]
    ELSE [tag |-> "Ok", second |-> second, nanosecond |-> nanosecond]

Timestamp_as_second(ts) == ts.second

Timestamp_subsec_nanosecond(ts) == ts.nanosecond

\* Timestamp::to_zoned(TimeZone::UTC), Zoned::timestamp()
Timestamp_to_zoned(ts, tz) == [tag |-> "Ok", timestamp |-> ts, tz |-> tz]

Zoned_timestamp(z) == z.timestamp

\* DateTime::from_secs_and_nanos(seconds: i64, subsecond_nanos: u32)
DateTime_from_secs_and_nanos(seconds, subsecond_nanos) ==
    IF ~WLt(subsecond_nanos, WInt(NanosPerSecond))
    THEN [tag |-> "panic", d |-> NoDateTime]
    ELSE [tag |-> "Ok", d |-> [secs |-> seconds, nanos |-> subsecond_nanos]]

DateTime_secs(d) == d.secs

DateTime_subsec_nanos(d) == d.nanos

\* impl ConvertAwsDateTime for Timestamp
Timestamp_try_from_aws(value) ==
    Timestamp_new(DateTime_secs(value), AsI32(DateTime_subsec_nanos(value)))

\* impl ConvertAwsDateTime for Zoned
Zoned_try_from_aws(value) ==
    LET timestamp == Timestamp_new(DateTime_secs(value),
                                   AsI32(DateTime_subsec_nanos(value)))
    IN IF timestamp.tag = "Err" THEN timestamp
       ELSE Timestamp_to_zoned(timestamp, "UTC")

\* impl ConvertJiffTypes for DateTime
DateTime_from_timestamp(timestamp) ==
    DateTime_from_secs_and_nanos(
        Timestamp_as_second(timestamp),
        AsU32(Timestamp_subsec_nanosecond(timestamp)))

DateTime_from_zoned(zoned) ==
    LET timestamp == Zoned_timestamp(zoned)
    IN DateTime_from_secs_and_nanos(
           Timestamp_as_second(timestamp),
           AsU32(Timestamp_subsec_nanosecond(timestamp)))

DateTime_try_into_zoned(d) == Zoned_try_from_aws(d)

DateTime_try_into_timestamp(d) == Timestamp_try_from_aws(d)

Timestamp_into_aws_datetime(ts) == DateTime_from_timestamp(ts)

Zoned_into_aws_datetime(z) == DateTime_from_zoned(z)

---------------------------------------------------------------------------
(* The specification of the conversions: a DateTime, to jiff and back *)

Seconds ==
    {WAdd(UnixSecondsMin, WInt(-1)), UnixSecondsMin, WInt(-2), WInt(-1),
     WZero, WInt(1), Wide(1627, 680004), UnixSecondsMax,
     WAdd(UnixSecondsMax, WInt(1))}

SubsecNanos == {0, 1, 123000000, NanosPerSecond - 1}

\* the DateTime values: a count of seconds and 0 <= nanos < 10^9
DateTimes == {[secs |-> t, nanos |-> WInt(n)] : t \in Seconds, n \in SubsecNanos}

InitAws ==
    /\ std = TRUE
    /\ heap = [i \in RecIds |-> FreeCell]
    /\ slots = [s \in SlotIds |-> EmptySlot]
    /\ attached = [i \in RecIds |-> << >>]
    /\ panicked = "none"
    /\ last = NoOp
    /\ fmt = NoFmt
    /\ aws \in {[NoAws EXCEPT !.pc = "start", !.d = d] : d \in DateTimes}

Convert(from, to, res) ==
    /\ aws.pc = from
    /\ aws' = [aws EXCEPT !.pc = to, !.res = res]
    /\ UNCHANGED <<std, heap, slots, attached, panicked, last, fmt>>

ConvertBack(from, back) ==
    /\ aws.pc = from
    /\ aws.res.tag = "Ok"
    /\ aws' = [aws EXCEPT !.pc = "back", !.back = back]
    /\ UNCHANGED <<std, heap, slots, attached, panicked, last, fmt>>

TryFromAwsTimestamp == Convert("start", "timestamp", Timestamp_try_from_aws(aws.d))

TryIntoTimestamp == Convert("start", "timestamp", DateTime_try_into_timestamp(aws.d))

TryFromAwsZoned == Convert("start", "zoned", Zoned_try_from_aws(aws.d))

TryIntoZoned == Convert("start", "zoned", DateTime_try_into_zoned(aws.d))

FromTimestamp == ConvertBack("timestamp", DateTime_from_timestamp(aws.res))

TimestampIntoAws == ConvertBack("timestamp", Timestamp_into_aws_datetime(aws.res))

FromZoned == ConvertBack("zoned", DateTime_from_zoned(aws.res))

ZonedIntoAws == ConvertBack("zoned", Zoned_into_aws_datetime(aws.res))

NextAws ==
    \/ TryFromAwsTimestamp
    \/ TryIntoTimestamp
    \/ TryFromAwsZoned
    \/ TryIntoZoned
    \/ FromTimestamp
    \/ TimestampIntoAws
    \/ FromZoned
    \/ ZonedIntoAws

SpecAws == InitAws /\ [][NextAws]_vars

---------------------------------------------------------------------------
(* Properties of the context attachment (checked under Spec) *)

ContextOps == {"context", "with_context"}

\* the number of records on the cause chain from id
RECURSIVE ChainLen(_, _, _)
ChainLen(h, id, fuel) ==
    IF fuel = 0 THEN 0
    ELSE IF h[id].cause = None THEN 1
    ELSE 1 + ChainLen(h, h[id].cause, fuel - 1)

\* the texts of a history joined with ": ", the newest first
RECURSIVE JoinNewestFirst(_)
JoinNewestFirst(seq) ==
    IF Len(seq) = 0 THEN ""
    ELSE IF Len(seq) = 1 THEN seq[1]
    ELSE seq[Len(seq)] \o ": " \o JoinNewestFirst(SubSeq(seq, 1, Len(seq) - 1))

\* what holds of every context / with_context that returns: the error has
\* the consequent's kind and self as its cause, and renders "B-text: A-text"
ReturnedIsChained ==
    LET id == slots[last.res].id
    IN /\ slots[last.res].tag = "Error"
       /\ heap[id].kind = last.cons.kind
       /\ heap[id].cause = last.selfId
       /\ Display(heap, id, std)
             = ErrorKind_fmt(last.cons.kind, std) \o ": " \o last.selfText

\* every live record renders as the texts attached to it, joined by ": ",
\* the most recently attached first and the leaf last
RendersNewestFirst ==
    \A i \in Live(heap) :
        /\ Len(attached[i]) = ChainLen(heap, i, MaxRec + 1)
        /\ Display(heap, i, std) = JoinNewestFirst(attached[i])

\* C1: for every error A and every cause-free consequent B, A.context(B) and
\* A.with_context(|| B) return an error whose kind is B's and whose cause is
\* A, rendered "B-text: A-text"; after n attachments onto a leaf the
\* rendering is the n + 1 texts joined by ": ", the most recently attached
\* first and the leaf last.
C1_ContextChainsInOrder ==
    /\ (last.op \in ContextOps /\ last.cons.cause = None)
          => (last.outcome = "returned" /\ ReturnedIsChained)
    /\ RendersNewestFirst

\* C1 for the calls that return
C1_ReturnedContextChainsInOrder ==
    /\ (last.op \in ContextOps /\ last.outcome = "returned") => ReturnedIsChained
    /\ RendersNewestFirst

\* C2: context / with_context with a consequent that already carries a cause
\* ends in the panic "cause of consequence must be None" and returns nothing.
C2_CausedConsequentPanics ==
    (last.op \in ContextOps /\ last.cons.cause # None)
        => /\ last.outcome = "panic"
           /\ panicked = CauseMsg
           /\ slots[last.res].tag = "Empty"

C2_Witness ==
    /\ last.op = "with_context"
    /\ last.form = "Error"
    /\ last.cons.cause # None
    /\ panicked = CauseMsg

\* C3: a call of context / with_context whose consequent has no cause always
\* returns an Error, whatever the consequent: at the point where the cause
\* is set the consequent's reference count is exactly one.
C3_CauseFreeConsequentReturns ==
    (last.op \in ContextOps /\ last.cons.cause = None)
        => /\ last.outcome = "returned"
           /\ last.cons.strong = 1

\* the cause links from every live record reach a cause-free leaf
ListShaped ==
    \A i \in Live(heap) :
        /\ heap[i].cause # None => heap[i].cause \in Live(heap)
        /\ ChainLen(heap, i, MaxRec + 1) \in 1..MaxRec

\* a record that has a cause keeps that cause for as long as it lives
CauseKept ==
    \A i \in RecIds :
        (heap[i].live /\ heap[i].cause # None /\ heap'[i].live)
            => heap'[i].cause = heap[i].cause

\* C4: the cause relation is a simple list: following the cause links from
\* any error reaches a cause-free leaf (no cycle), and a cause, once set, is
\* never removed or replaced.
C4_CauseChainIsList == ListShaped /\ [][ListShaped' /\ CauseKept]_vars

\* a chain of three records, its head also held through a clone
C4_Witness ==
    \E i \in Live(heap) :
        /\ ChainLen(heap, i, MaxRec + 1) = 3
        /\ heap[i].strong = 2

\* the kind and cause of record i are the same in the next state
SameRecord(i) ==
    heap'[i].live => /\ heap'[i].kind = heap[i].kind
                     /\ heap'[i].cause = heap[i].cause

\* a handle that stays where it is shows the same kind, chain and text
SameView(s) ==
    (slots[s].tag \in {"Error", "Err"} /\ slots'[s] = slots[s])
        => LET id == slots[s].id
           IN /\ heap'[id].live
              /\ heap'[id].kind = heap[id].kind
              /\ heap'[id].cause = heap[id].cause
              /\ Display(heap', id, std) = Display(heap, id, std)

\* C5 as stated: once a record has been cloned, no later operation changes
\* its kind or its cause.
C5_NeverMutatedOnceCloned ==
    [][\A i \in RecIds : (heap[i].live /\ heap[i].shared) => SameRecord(i)]_vars

\* C5 as amended: a record is not changed while its reference count is
\* greater than one, and what a live handle shows never changes.
C5_NotMutatedWhileShared ==
    [][/\ \A i \in RecIds : (heap[i].live /\ heap[i].strong > 1) => SameRecord(i)
       /\ \A s \in SlotIds : SameView(s)]_vars

\* a consequent with a live clone was passed to context, which panicked
C5_Witness ==
    /\ last.op \in ContextOps
    /\ last.cons.strong > 1
    /\ last.cons.cause = None
    /\ panicked = UnwrapMsg

\* C10: converting an Error gives that same error and allocates nothing;
\* converting a text gives a cause-free Adhoc error of that text; so
\* A.context(x), A.with_context(|| x) and A.context(Error::adhoc(x)) render
\* the same text, x followed by ": " and A's text.
C10_IntoErrorNormalizes ==
    last.op \in ContextOps =>
        /\ last.form = "Error" =>
              /\ last.cons.id = last.arg.id
              /\ last.cons.kind = last.arg.kind
              /\ last.cons.cause = last.arg.cause
              /\ last.cons.text = last.arg.text
              /\ last.cons.live = last.arg.live
        /\ last.form \in {"str", "String"} =>
              /\ last.cons.kind.variant = "Adhoc"
              /\ last.cons.cause = None
              /\ last.cons.text = last.text
              /\ last.cons.strong = 1
              /\ last.cons.live = last.arg.live + 1
        \* a text x, or Error::adhoc(x) as it is passed: the call returns
        /\ (last.cons.kind.variant = "Adhoc" /\ last.cons.cause = None
            /\ last.cons.strong = 1) =>
              /\ last.outcome = "returned"
              /\ Display(heap, slots[last.res].id, std)
                    = last.cons.kind.what \o ": " \o last.selfText

\* context was given Error::adhoc(x) and returned
C10_Witness ==
    /\ last.op = "context"
    /\ last.form = "Error"
    /\ last.outcome = "returned"
    /\ last.cons.kind = AdhocError("parsing duration")
    /\ Display(heap, slots[last.res].id, std) = "parsing duration: bad input"

---------------------------------------------------------------------------
(* Properties of the Result-shaped calls (checked under SpecResult) *)

ResultOps == {"result_context", "result_with_context"}

\* C6: on Ok(v), context and with_context return Ok(v) and with_context does
\* not call its producer; on Err(e) they return Err of what e.context /
\* e.with_context returns, the producer being called exactly once.
C6_ResultContextPassesOk ==
    last.op \in ResultOps =>
        /\ last.selfTag = "Ok" =>
              /\ last.outcome = "returned"
              /\ panicked = "none"
              /\ slots[last.res] = Ok(last.selfVal)
              /\ last.calls = 0
              /\ last.cons = NoCons
        /\ last.selfTag = "Err" =>
              /\ last.calls = IF last.op = "result_with_context" THEN 1 ELSE 0
              /\ last.outcome = "returned" =>
                    /\ slots[last.res].tag = "Err"
                    /\ heap[slots[last.res].id].kind = last.cons.kind
                    /\ heap[slots[last.res].id].cause = last.selfId
                    /\ Display(heap, slots[last.res].id, std)
                          = ErrorKind_fmt(last.cons.kind, std) \o ": "
                            \o last.selfText
              /\ last.outcome = "panic" =>
                    /\ slots[last.res].tag = "Empty"
                    /\ panicked \in {CauseMsg, UnwrapMsg}
                    /\ last.cons.cause # None \/ last.cons.strong # 1

\* with_context has passed an Ok through
C6_Witness ==
    /\ last.op = "result_with_context"
    /\ last.selfTag = "Ok"
    /\ slots[last.res] = Ok(7)
    /\ last.calls = 0

\* with_context has wrapped the error of an Err
C6_WitnessErr ==
    /\ last.op = "result_with_context"
    /\ last.selfTag = "Err"
    /\ last.outcome = "returned"
    /\ last.calls = 1

---------------------------------------------------------------------------
(* Properties of the leaf constructors (checked under SpecLeaf) *)

\* the error the last leaf constructor returned
Leaf == heap[slots[last.res].id]

LeafText == Display(heap, slots[last.res].id, std)

\* C7 as stated: an error returned by a leaf constructor has no cause and
\* its rendered text holds no ": ", for every input of the constructor.
C7_LeafRendersNoSeparator ==
    last.op \in LeafOps =>
        /\ Leaf.cause = None
        /\ ~Contains(LeafText, ": ")

\* C7 as amended: an error returned by a leaf constructor has no cause and
\* renders as the text of its kind alone; a ": " in it comes from the
\* caller's own text (the message, the field or zone name, the OS error).
C7_LeafRendersItsKindOnly ==
    last.op \in LeafOps =>
        /\ Leaf.live
        /\ Leaf.cause = None
        /\ LeafText = ErrorKind_fmt(Leaf.kind, std)
        /\ Contains(LeafText, ": ") => Contains(Leaf.kind.what, ": ")

\* adhoc was given a message that holds ": "
C7_Witness ==
    /\ last.op = "adhoc"
    /\ Leaf.cause = None
    /\ LeafText = "a: b"

\* the text C8 gives for a payload
Template(k) ==
    CASE k.variant = "Range" /\ k.shape \in {"Positive", "Negative"} ->
            "parameter '" \o k.what \o "' with value " \o FmtInt(k.given)
            \o " is not in the required range of " \o FmtInt(k.min)
            \o "..=" \o FmtInt(k.max)
      [] k.variant = "Range" /\ k.shape = "Specific" ->
            "parameter '" \o k.what \o "' with value " \o FmtInt(k.given)
            \o " is illegal"
      [] k.variant = "TimeZoneLookup" ->
            "failed to find timezone '" \o k.what \o "' in time zone database"
      [] OTHER -> k.what

\* C8: unsigned and signed range errors render "parameter '<field>' with
\* value <given> is not in the required range of <min>..=<max>" (the same
\* text for the same field, value and bounds), a specific range error
\* "parameter '<field>' with value <given> is illegal", a time zone lookup
\* error "failed to find timezone '<name>' in time zone database".
C8_PayloadsRenderPerTemplate ==
    (fmt.done /\ fmt.cause = None) =>
        /\ fmt.text = Template(fmt.kind)
        /\ fmt.kind = RangeError_unsigned("day", 40, 1, 31) =>
              fmt.text = "parameter 'day' with value 40 is not in the required range of 1..=31"
        /\ fmt.kind = RangeError_signed("day", 40, 1, 31) =>
              fmt.text = "parameter 'day' with value 40 is not in the required range of 1..=31"
        /\ fmt.kind = RangeError_signed("offset", -12345, -3, 3) =>
              fmt.text = "parameter 'offset' with value -12345 is not in the required range of -3..=3"
        /\ fmt.kind = RangeError_specific("day", 0) =>
              fmt.text = "parameter 'day' with value 0 is illegal"
        /\ fmt.kind = TimeZoneLookupError("Fake/Zone") =>
              fmt.text = "failed to find timezone 'Fake/Zone' in time zone database"

\* unsigned("day", 40, 1, 31) has been rendered
C8_Witness ==
    /\ fmt.done
    /\ fmt.kind = RangeError_unsigned("day", 40, 1, 31)
    /\ fmt.text = "parameter 'day' with value 40 is not in the required range of 1..=31"

---------------------------------------------------------------------------
(* Properties of the DateTime conversions (checked under SpecAws) *)

\* the instant of d is one a Timestamp can hold
Representable(d) == WLe(UnixSecondsMin, d.secs) /\ WLe(d.secs, UnixSecondsMax)

\* C9: for every DateTime d a Timestamp can hold, instants before the epoch
\* with a sub-second part included, try_from_aws(d) succeeds and the way
\* back (from_timestamp, from_zoned) returns d; a d that cannot be held
\* gives Err.
C9_RoundTrip ==
    /\ aws.pc \in {"timestamp", "zoned"} =>
          (aws.res.tag = "Ok" <=> Representable(aws.d))
    /\ aws.pc = "zoned" /\ aws.res.tag = "Ok" => aws.res.tz = "UTC"
    /\ aws.pc = "back" => aws.back = [tag |-> "Ok", d |-> aws.d]

----------------------------------------------------------------------------
(* The layout of the Error handle *)

\* the pointer widths of the targets, in bytes (16, 32 and 64 bit)
PointerWidths == {2, 4, 8}

\* core::mem::size_of::<usize>()
size_of_usize(w) == w

\* an Arc of an unsized payload is a pointer and its metadata
SizeOfArcUnsized(w) == 2 * w

\* Arc<ErrorInner>: ErrorInner is Sized, so the Arc is one thin pointer to
\* the shared allocation; the counts, the kind and the cause are behind it
size_of_Arc(w) == w

\* n rounded up to a multiple of a
AlignUp(n, a) == ((n + a - 1) \div a) * a

RECURSIVE SumSizes(_)
SumSizes(sizes) ==
    IF Len(sizes) = 0 THEN 0
    ELSE sizes[1] + SumSizes(SubSeq(sizes, 2, Len(sizes)))

\* the size of a struct: its fields, padded to its alignment
StructSize(sizes, align) == AlignUp(SumSizes(sizes), align)

\* struct Error { inner: Arc<ErrorInner> }
Error_fields(w) == <<size_of_Arc(w)>>

\* core::mem::size_of::<Error>()
size_of_Error(w) == StructSize(Error_fields(w), w)

\* tests::error_size
error_size(w) == size_of_usize(w) = size_of_Error(w)

\* the records an Error handle keeps alive: its own and its causes'
RecordsBehind(s) == ChainLen(heap, slots[s].id, MaxRec + 1)

----------------------------------------------------------------------------
(* The specification of the handles: a leaf of every ErrorKind variant     *)
(* (Range by its unsigned constructor; the signed and the specific one    *)
(* build the same boxed payload), clones, and chains of causes            *)

SizeConsequents ==
    [form : {"str"}, text : {"parsing duration"}, slot : {None}]
    \cup [form : {"Error"}, text : {""}, slot : SlotIds]

NextSize ==
    \/ Adhoc("bad input")
    \/ Unsigned("day", 40, 1, 31)
    \/ TimeZoneLookup("Fake/Zone")
    \/ Io("permission denied")
    \/ \E s \in SlotIds : Clone(s)
    \/ \E s \in SlotIds : Drop(s)
    \/ \E s \in SlotIds, q \in SizeConsequents : Context(s, q)
    \/ \E s \in SlotIds : Path(s, "/usr/share/zoneinfo")

SpecSize == Init /\ [][NextSize]_vars

===========================================================================
